---- MODULE Spec2Model ----
(***************************************************************************)
(* Boot sequence and serving-mode controller of the sleepydrive daemon      *)
(* (cmd/root.go): the cobra PreRun hook, rootCmdRun, and the goroutines     *)
(* rootCmdRun starts (profiler endpoint, autocert challenge responder,      *)
(* webcam capture loop).                                                     *)
(***************************************************************************)
EXTENDS Naturals, Sequences, FiniteSets, TLC

VARIABLES
    flags,        \* the parsed command-line flags of this invocation
    cfgFile,      \* what the configuration file on disk holds
    pc,           \* position of the main goroutine
    alive,        \* the process has not exited
    exitCode,     \* <<status>> once the process has exited, <<>> before
    cfgLoaded,    \* config.FromFile succeeded: config.Get() is the snapshot
    logLevel,     \* level of the apex logger
    log,          \* entries the apex logger emitted, in order
    printed,      \* messages written to stdout/stderr outside the logger
    fs,           \* the on-disk effects of the boot steps
    attempted,    \* the directory creations tried by rootCmdRun
    autotls,      \* rootCmdRun's local autotls
    decided,      \* lines 125-129 have run
    server,       \* the http.Server s, NoServer before line 141
    manager,      \* the autocert.Manager m, NoManager outside the autotls branch
    runtimeCfg,   \* runtime block-profile rate and mutex-profile fraction
    listener,     \* the Primary Listener's state
    calls,        \* the listen calls the main goroutine made on s, in order
    binds,        \* the network endpoints a listen call was issued for
    profiler,     \* the profiler goroutine
    challenge,    \* the autocert http goroutine
    capture,      \* the capture goroutine: pc, resources held, loop state
    frames,       \* webcam.Read calls made so far, up to MaxFrames
    keyPending    \* a key press waits on the "Face Detect" window

vars == <<flags, cfgFile, pc, alive, exitCode, cfgLoaded, logLevel, log, printed, fs,
          attempted, autotls, decided, server, manager, runtimeCfg, listener,
          calls, binds, profiler, challenge, capture, frames, keyPending>>

\* ------------------------------------------------------------------ bounds

\* webcam.Read calls the capture loop is followed for
MaxFrames == 2

\* ------------------------------------------------------------------ values

Hostnames == {"", "a.example.com", "b.example.com"}

\* A path is the sequence of its "/"-separated segments; an empty segment is what
\* a doubled or trailing slash leaves.
Roots == {<<"var", "lib", "ddu">>, <<"srv", "ddu", "">>}

TLSFiles == {[cert |-> "", key |-> ""], [cert |-> "cert.pem", key |-> "key.pem"]}

\* --pprof-block-rate is read only under --pprof; without it the flag keeps its
\* default.
Flags == {f \in [autoTLS : BOOLEAN, tlsHostname : Hostnames, pprof : BOOLEAN,
                 pprofBlockRate : {0, 1}, ignoreCertErrors : BOOLEAN] :
            f.pprof \/ f.pprofBlockRate = 0}

Configs == [sslEnabled : BOOLEAN, files : TLSFiles, root : Roots, debug : BOOLEAN]

\* tls-hostname and the root directory are used only in the autotls branch:
\* without --auto-tls one non-empty hostname and one root stand for all.
Relevant(f, c) ==
    f.autoTLS \/ (f.tlsHostname \in {"", "a.example.com"} /\ c.root = <<"var", "lib", "ddu">>)

ServingStates == {"ServingAutomaticTLS", "ServingManualTLS", "ServingPlain"}

ListenerStates == {"Configuring", "Terminated"} \cup ServingStates

NoServer == [made |-> FALSE]

NoManager == [made |-> FALSE]

\* ----------------------------------------------------------------- helpers

LevelRank(l) ==
    CASE l = "debug" -> 0
      [] l = "info"  -> 1
      [] l = "warn"  -> 2
      [] l = "error" -> 3
      [] l = "fatal" -> 4

\* apex/log: an entry below the logger's level is dropped.
Emit(lg, lvl, l, m) ==
    IF LevelRank(l) >= LevelRank(lvl) THEN Append(lg, [level |-> l, msg |-> m]) ELSE lg

RECURSIVE Clean(_)
Clean(p) ==
    IF p = <<>> THEN <<>>
    ELSE IF Head(p) = "" THEN Clean(Tail(p))
    ELSE <<Head(p)>> \o Clean(Tail(p))

\* path.Join: the elements joined, then cleaned.
PathJoin(a, b) == Clean(a \o b)

Logged(l, m) == \E i \in 1..Len(log) : log[i].level = l /\ log[i].msg = m

\* ------------------------------------------------------------------- state

InitCommon ==
    /\ flags \in Flags
    /\ cfgFile \in Configs
    /\ Relevant(flags, cfgFile)
    /\ alive = TRUE
    /\ exitCode = <<>>
    /\ printed = {}
    /\ attempted = {}
    /\ autotls = FALSE
    /\ decided = FALSE
    /\ server = NoServer
    /\ manager = NoManager
    /\ runtimeCfg = [blockRate |-> 0, mutexFraction |-> 0, insecureSkipVerify |-> FALSE]
    /\ listener = "Configuring"
    /\ calls = <<>>
    /\ binds = {}
    /\ profiler = "none"
    /\ challenge = "none"
    /\ capture = [pc |-> "none", held |-> {}, loaded |-> FALSE, empty |-> TRUE,
                  readOk |-> TRUE]
    /\ frames = 0
    /\ keyPending = FALSE

\* The process as cobra starts it: rootCommand.PreRun is next.
Init ==
    /\ InitCommon
    /\ pc = "initConfig"
    /\ cfgLoaded = FALSE
    /\ logLevel = "info"
    /\ log = <<>>
    /\ fs = {}

\* os.Exit(code): every goroutine stops with the process.
Exit(code) ==
    /\ alive' = FALSE
    /\ exitCode' = <<code>>
    /\ pc' = "exited"
    /\ listener' = "Terminated"

\* apex log.Fatal: the entry is written, then os.Exit(1).
Fatal(m) ==
    /\ log' = Emit(log, logLevel, "fatal", m)
    /\ Exit(1)

\* The main goroutine moves on; the process and the listener stay as they are.
Goto(p) ==
    /\ pc' = p
    /\ UNCHANGED <<alive, exitCode, listener>>

Inputs == <<flags, cfgFile>>

Tasks == <<profiler, challenge, capture, frames, keyPending>>

Serving == <<server, manager, calls, binds>>

\* --------------------------------------------------- rootCommand.PreRun

\* initConfig(): config.FromFile reads the file; a missing file prints the
\* configuration notice and exits 1, any other error is log2.Fatalf (exit 1).
InitConfig ==
    /\ alive /\ pc = "initConfig"
    /\ \E outcome \in {"ok", "notexist", "error"} :
         CASE outcome = "ok" ->
                /\ cfgLoaded' = TRUE
                /\ Goto("initLogging")
                /\ UNCHANGED printed
           [] outcome = "notexist" ->
                /\ printed' = printed \cup {"Error: Configuration File Not Found"}
                /\ Exit(1)
                /\ UNCHANGED cfgLoaded
           [] outcome = "error" ->
                /\ printed' = printed \cup {"cmd/root: error while reading configuration file"}
                /\ Exit(1)
                /\ UNCHANGED cfgLoaded
    /\ UNCHANGED <<Inputs, logLevel, log, fs, attempted, autotls, decided, runtimeCfg,
                   Serving, Tasks>>

\* initLogging(): the log directory, the log file, the level, the handler, and
\* the first entry.
InitLogging ==
    /\ alive /\ pc = "initLogging"
    /\ \E outcome \in {"ok", "mkdirfail", "filefail"} :
         CASE outcome = "ok" ->
                /\ fs' = fs \cup {"logdir", "logfile"}
                /\ logLevel' = IF cfgFile.debug THEN "debug" ELSE "info"
                /\ log' = Emit(log, logLevel', "info", "writing log files to disk")
                /\ Goto("preRunCheck")
                /\ UNCHANGED printed
           [] outcome = "mkdirfail" ->
                /\ printed' = printed \cup {"cmd/root: failed to create install directory path"}
                /\ Exit(1)
                /\ UNCHANGED <<fs, logLevel, log>>
           [] outcome = "filefail" ->
                /\ fs' = fs \cup {"logdir"}
                /\ printed' = printed \cup {"cmd/root: failed to create sleepydrive log"}
                /\ Exit(1)
                /\ UNCHANGED <<logLevel, log>>
    /\ UNCHANGED <<Inputs, cfgLoaded, attempted, autotls, decided, runtimeCfg,
                   Serving, Tasks>>

\* PreRun with the hostname test inverted.
UsageError_Inverted(f) == f.autoTLS /\ f.tlsHostname # ""

\* The flag combination PreRun refuses.
UsageError(f) == f.autoTLS /\ f.tlsHostname = ""

\* PreRun printing its usage message without the os.Exit(1).
PreRunCheck_NoExit ==
    /\ alive /\ pc = "preRunCheck"
    /\ printed' = (IF UsageError(flags)
                   THEN printed \cup {"A TLS hostname must be provided"} ELSE printed)
    /\ Goto("run")
    /\ UNCHANGED <<Inputs, cfgLoaded, logLevel, log, fs, attempted, autotls, decided,
                   runtimeCfg, Serving, Tasks>>

\* The check that follows initConfig and initLogging in PreRun.
PreRunCheck ==
    /\ alive /\ pc = "preRunCheck"
    /\ IF UsageError(flags)
       THEN /\ printed' = printed \cup {"A TLS hostname must be provided"}
            /\ Exit(1)
       ELSE /\ Goto("run")
            /\ UNCHANGED printed
    /\ UNCHANGED <<Inputs, cfgLoaded, logLevel, log, fs, attempted, autotls, decided,
                   runtimeCfg, Serving, Tasks>>

\* ------------------------------------------------------------ rootCmdRun

\* config.DefaultTLSConfig, the *tls.Config the server is built with.
DefaultTLSConfig ==
    [isNil |-> FALSE, getCertificate |-> FALSE, nextProtos |-> <<"h2", "http/1.1">>]

NilTLSConfig == [isNil |-> TRUE, getCertificate |-> FALSE, nextProtos |-> <<>>]

\* acme.ALPNProto
ALPNProto == "acme-tls/1"

\* The logo and the entries up to "configured system user successfully".
RunPreamble ==
    /\ alive /\ pc = "run"
    /\ printed' = printed \cup {"logo"}
    /\ LET l1 == Emit(log, logLevel, "debug", "running in debug mode")
           l2 == Emit(l1, logLevel, "info", "loading configuration from file")
           l3 == IF flags.ignoreCertErrors
                 THEN Emit(l2, logLevel, "warn", "running with --ignore-certificate-errors")
                 ELSE l2
           l4 == Emit(l3, logLevel, "info", "configured sleepydrive with system timezone")
           l5 == Emit(l4, logLevel, "info", "checking for pterodactyl system user")
       IN  log' = Emit(l5, logLevel, "info", "configured system user successfully")
    /\ runtimeCfg' = [runtimeCfg EXCEPT !.insecureSkipVerify = flags.ignoreCertErrors]
    /\ Goto("logRotation")
    /\ UNCHANGED <<Inputs, cfgLoaded, logLevel, fs, attempted, autotls, decided,
                   Serving, Tasks>>

\* config.EnableLogRotation(): an error is fatal.
EnableLogRotation ==
    /\ alive /\ pc = "logRotation"
    /\ \E ok \in BOOLEAN :
         IF ok
         THEN /\ fs' = fs \cup {"logrotate"}
              /\ Goto("writeToDisk")
              /\ UNCHANGED log
         ELSE /\ Fatal("failed to configure log rotation on the system")
              /\ UNCHANGED fs
    /\ UNCHANGED <<Inputs, cfgLoaded, logLevel, printed, attempted, autotls, decided,
                   runtimeCfg, Serving, Tasks>>

\* config.WriteToDisk(config.Get()): an error is fatal.
WriteToDisk ==
    /\ alive /\ pc = "writeToDisk"
    /\ \E ok \in BOOLEAN :
         IF ok
         THEN /\ fs' = fs \cup {"config"}
              /\ Goto("mkArchive")
              /\ UNCHANGED log
         ELSE /\ Fatal("failed to write configuration to disk")
              /\ UNCHANGED fs
    /\ UNCHANGED <<Inputs, cfgLoaded, logLevel, printed, attempted, autotls, decided,
                   runtimeCfg, Serving, Tasks>>

\* os.MkdirAll with its error dropped.
MkdirAll_Silent(dir, next) ==
    /\ attempted' = attempted \cup {dir}
    /\ \E ok \in BOOLEAN :
         /\ fs' = (IF ok THEN fs \cup {dir} ELSE fs)
         /\ UNCHANGED log
    /\ Goto(next)

\* A directory that cannot be created treated as fatal.
MkdirAll_AbortOnError(dir, next) ==
    /\ attempted' = attempted \cup {dir}
    /\ \E ok \in BOOLEAN :
         IF ok
         THEN /\ fs' = fs \cup {dir}
              /\ UNCHANGED log
              /\ Goto(next)
         ELSE /\ Fatal("failed to create " \o dir \o " directory")
              /\ UNCHANGED fs

\* os.MkdirAll(dir, 0o755) and the error entry when it fails; boot goes on to next.
MkdirAll(dir, next) ==
    /\ attempted' = attempted \cup {dir}
    /\ \E ok \in BOOLEAN :
         IF ok
         THEN /\ fs' = fs \cup {dir}
              /\ UNCHANGED log
         ELSE /\ log' = Emit(log, logLevel, "error", "failed to create " \o dir \o " directory")
              /\ UNCHANGED fs
    /\ Goto(next)

\* rootCmdRun without its second MkdirAll.
AfterArchive_SkipsBackup == "select"

\* Where boot goes after the archive directory.
AfterArchive == "mkBackup"

MkArchive ==
    /\ alive /\ pc = "mkArchive"
    /\ MkdirAll("archive", AfterArchive)
    /\ UNCHANGED <<Inputs, cfgLoaded, logLevel, printed, autotls, decided, runtimeCfg,
                   Serving, Tasks>>

MkBackup ==
    /\ alive /\ pc = "mkBackup"
    /\ MkdirAll("backup", "select")
    /\ UNCHANGED <<Inputs, cfgLoaded, logLevel, printed, autotls, decided, runtimeCfg,
                   Serving, Tasks>>

\* rootCmdRun without the test of the hostname.
EffectiveAutoTLS_NoDowngrade(requested, hostname) == requested

\* autotls as rootCmdRun uses it: the flag, dropped when no hostname came with it.
EffectiveAutoTLS(requested, hostname) ==
    IF requested /\ hostname = "" THEN FALSE ELSE requested

\* The selector and the "configuring internal webserver" entry.
SelectStrategy ==
    /\ alive /\ pc = "select"
    /\ autotls' = EffectiveAutoTLS(flags.autoTLS, flags.tlsHostname)
    /\ decided' = TRUE
    /\ log' = Emit(log, logLevel, "info", "configuring internal webserver")
    /\ Goto("newServer")
    /\ UNCHANGED <<Inputs, cfgLoaded, logLevel, printed, fs, attempted, runtimeCfg,
                   Serving, Tasks>>

\* s := &http.Server{..., TLSConfig: config.DefaultTLSConfig}
NewServer ==
    /\ alive /\ pc = "newServer"
    /\ server' = [made |-> TRUE, tlsConfig |-> DefaultTLSConfig]
    /\ Goto("pprof")
    /\ UNCHANGED <<Inputs, cfgLoaded, logLevel, log, printed, fs, attempted, autotls,
                   decided, runtimeCfg, manager, calls, binds, Tasks>>

\* runtime.SetMutexProfileFraction(100)
MutexProfileFraction == 100

\* The profiler: the sampling rates, then the endpoint in its own goroutine.
StartProfiler ==
    /\ alive /\ pc = "pprof"
    /\ IF flags.pprof
       THEN /\ runtimeCfg' =
                 [runtimeCfg EXCEPT
                    !.blockRate = IF flags.pprofBlockRate > 0
                                  THEN flags.pprofBlockRate ELSE @,
                    !.mutexFraction = MutexProfileFraction]
            /\ profiler' = "started"
       ELSE UNCHANGED <<runtimeCfg, profiler>>
    /\ Goto("branch")
    /\ UNCHANGED <<Inputs, cfgLoaded, logLevel, log, printed, fs, attempted, autotls,
                   decided, Serving, challenge, capture, frames, keyPending>>

\* An autocert.Manager built without a HostPolicy answers for any name.
HostWhitelist_Any(h) == Hostnames \ {""}

\* autocert.HostWhitelist(tlshostname)
HostWhitelist(h) == {h}

\* "/.tls-cache" as path.Join receives it.
TLSCacheElem == <<"", ".tls-cache">>

\* The autotls branch up to the hook into s.TLSConfig: the autocert.Manager, the
\* entry, GetCertificate, and acme.ALPNProto appended to NextProtos.
AutoSetup ==
    /\ alive /\ pc = "branch" /\ autotls
    /\ manager' = [made |-> TRUE,
                   hostPolicy |-> HostWhitelist(flags.tlsHostname),
                   cache |-> PathJoin(cfgFile.root, TLSCacheElem)]
    /\ log' = Emit(log, logLevel, "info", "webserver is now listening with auto-TLS enabled")
    /\ server' = [server EXCEPT
                    !.tlsConfig.getCertificate = TRUE,
                    !.tlsConfig.nextProtos = Append(@, ALPNProto)]
    /\ Goto("goAutocert")
    /\ UNCHANGED <<Inputs, cfgLoaded, logLevel, printed, fs, attempted, autotls, decided,
                   runtimeCfg, calls, binds, Tasks>>

\* go func() { http.ListenAndServe(":http", m.HTTPHandler(nil)) ... }()
GoAutocert ==
    /\ alive /\ pc = "goAutocert"
    /\ challenge' = "started"
    /\ Goto("listenAuto")
    /\ UNCHANGED <<Inputs, cfgLoaded, logLevel, log, printed, fs, attempted, autotls,
                   decided, runtimeCfg, Serving, profiler, capture, frames, keyPending>>

\* A listen call on s: the call is recorded with what s holds at that moment, and
\* the main goroutine blocks in it.
Listen(fn, certFile, keyFile, state) ==
    /\ calls' = Append(calls, [fn |-> fn, certFile |-> certFile, keyFile |-> keyFile,
                               tlsConfig |-> server'.tlsConfig, manager |-> manager])
    /\ binds' = binds \cup {"primary"}
    /\ listener' = state
    /\ pc' = "serving"
    /\ UNCHANGED <<alive, exitCode>>

\* s.ListenAndServeTLS("", "") in the autotls branch.
ListenAuto ==
    /\ alive /\ pc = "listenAuto"
    /\ UNCHANGED server
    /\ Listen("ListenAndServeTLS", "", "", "ServingAutomaticTLS")
    /\ UNCHANGED <<Inputs, cfgLoaded, logLevel, log, printed, fs, attempted, autotls,
                   decided, runtimeCfg, manager, Tasks>>

\* go func() { ... webcam capture ... }(), reached only past the autotls branch.
GoCapture ==
    /\ alive /\ pc = "branch" /\ ~autotls
    /\ capture' = [capture EXCEPT !.pc = "open"]
    /\ Goto("listen")
    /\ UNCHANGED <<Inputs, cfgLoaded, logLevel, log, printed, fs, attempted, autotls,
                   decided, runtimeCfg, Serving, profiler, challenge, frames, keyPending>>

\* The manual listen call with its two file arguments exchanged.
ListenManual_Swapped ==
    /\ alive /\ pc = "listen" /\ cfgFile.sslEnabled
    /\ UNCHANGED server
    /\ Listen("ListenAndServeTLS", cfgFile.files.key, cfgFile.files.cert, "ServingManualTLS")
    /\ UNCHANGED <<Inputs, cfgLoaded, logLevel, log, printed, fs, attempted, autotls,
                   decided, runtimeCfg, manager, Tasks>>

\* s.ListenAndServeTLS(api.Ssl.CertificateFile, api.Ssl.KeyFile)
ListenManual ==
    /\ alive /\ pc = "listen" /\ cfgFile.sslEnabled
    /\ UNCHANGED server
    /\ Listen("ListenAndServeTLS", cfgFile.files.cert, cfgFile.files.key, "ServingManualTLS")
    /\ UNCHANGED <<Inputs, cfgLoaded, logLevel, log, printed, fs, attempted, autotls,
                   decided, runtimeCfg, manager, Tasks>>

\* The plain listen call with s.TLSConfig left as it was built.
ListenPlain_NotCleared ==
    /\ alive /\ pc = "listen" /\ ~cfgFile.sslEnabled
    /\ UNCHANGED server
    /\ Listen("ListenAndServe", "", "", "ServingPlain")
    /\ UNCHANGED <<Inputs, cfgLoaded, logLevel, log, printed, fs, attempted, autotls,
                   decided, runtimeCfg, manager, Tasks>>

\* s.TLSConfig = nil, then s.ListenAndServe()
ListenPlain ==
    /\ alive /\ pc = "listen" /\ ~cfgFile.sslEnabled
    /\ server' = [server EXCEPT !.tlsConfig = NilTLSConfig]
    /\ Listen("ListenAndServe", "", "", "ServingPlain")
    /\ UNCHANGED <<Inputs, cfgLoaded, logLevel, log, printed, fs, attempted, autotls,
                   decided, runtimeCfg, manager, Tasks>>

\* The entry written when the listen call of a serving state returns its error.
FailureMessage(state) ==
    CASE state = "ServingAutomaticTLS" -> "failed to configure HTTP server using auto-tls"
      [] state = "ServingManualTLS"    -> "failed to configure HTTPS server"
      [] state = "ServingPlain"        -> "failed to configure HTTP server"

\* The listener's error written with log.Error and the listen call tried again.
ServeError_Retry ==
    /\ alive /\ pc = "serving"
    /\ log' = Emit(log, logLevel, "error", FailureMessage(listener))
    /\ listener' = "Configuring"
    /\ pc' = (IF autotls THEN "listenAuto" ELSE "listen")
    /\ UNCHANGED <<alive, exitCode>>
    /\ UNCHANGED <<Inputs, cfgLoaded, logLevel, printed, fs, attempted, autotls, decided,
                   runtimeCfg, Serving, Tasks>>

\* The listener's error written with log.Error: rootCmdRun returns and the
\* process ends with status 0.
ServeError_Swallowed ==
    /\ alive /\ pc = "serving"
    /\ log' = Emit(log, logLevel, "error", FailureMessage(listener))
    /\ Exit(0)
    /\ UNCHANGED <<Inputs, cfgLoaded, logLevel, printed, fs, attempted, autotls, decided,
                   runtimeCfg, Serving, Tasks>>

\* The listen call returns (it only ever returns an error): log.Fatal.
ServeError ==
    /\ alive /\ pc = "serving"
    /\ Fatal(FailureMessage(listener))
    /\ UNCHANGED <<Inputs, cfgLoaded, logLevel, printed, fs, attempted, autotls, decided,
                   runtimeCfg, Serving, Tasks>>

\* ---------------------------------------------------------- the goroutines

MainBoot == <<pc, alive, exitCode, listener, cfgLoaded, fs, attempted, autotls, decided,
              runtimeCfg, Serving>>

\* The profiler goroutine: http.ListenAndServe("localhost:<port>", nil) fails to
\* bind, or serves and may return its error later; the error is dropped.
ProfilerListen ==
    /\ alive /\ profiler \in {"started", "serving"}
    /\ binds' = binds \cup {"pprof"}
    /\ \E ok \in (IF profiler = "started" THEN BOOLEAN ELSE {FALSE}) :
         profiler' = IF ok THEN "serving" ELSE "failed"
    /\ UNCHANGED <<Inputs, pc, alive, exitCode, listener, cfgLoaded, logLevel, log,
                   printed, fs, attempted, autotls, decided, runtimeCfg, server, manager,
                   calls, challenge, capture, frames, keyPending>>

\* The autocert http goroutine with its error dropped.
ChallengeFailure_Silent(lg, lvl) == lg

\* The error the autocert http goroutine meets is written as an error entry.
ChallengeFailure(lg, lvl) == Emit(lg, lvl, "error", "failed to serve autocert http server")

\* The autocert http goroutine: http.ListenAndServe(":http", m.HTTPHandler(nil))
\* fails to bind, or serves and may return its error later.
ChallengeListen ==
    /\ alive /\ challenge \in {"started", "serving"}
    /\ binds' = binds \cup {"challenge"}
    /\ \E ok \in (IF challenge = "started" THEN BOOLEAN ELSE {FALSE}) :
         IF ok
         THEN /\ challenge' = "serving"
              /\ UNCHANGED log
         ELSE /\ challenge' = "failed"
              /\ log' = ChallengeFailure(log, logLevel)
    /\ UNCHANGED <<Inputs, pc, alive, exitCode, listener, cfgLoaded, logLevel,
                   printed, fs, attempted, autotls, decided, runtimeCfg, server, manager,
                   calls, profiler, capture, frames, keyPending>>

\* The capture goroutine with log.Fatal where it fails to open the device.
CaptureOpen_Fatal ==
    /\ alive /\ capture.pc = "open"
    /\ \E ok \in BOOLEAN :
         IF ok
         THEN /\ capture' = [capture EXCEPT !.pc = "setup", !.held = @ \cup {"webcam"}]
              /\ UNCHANGED <<log, pc, alive, exitCode, listener>>
         ELSE /\ capture' = [capture EXCEPT !.pc = "failed"]
              /\ Fatal("failed to open capture device")
    /\ UNCHANGED <<Inputs, cfgLoaded, fs, attempted, autotls, decided, runtimeCfg, Serving,
                   logLevel, printed, profiler, challenge, frames, keyPending>>

\* gocv.VideoCaptureDevice(0): on an error the entry is written and the goroutine
\* returns; nothing has been acquired yet.
CaptureOpen ==
    /\ alive /\ capture.pc = "open"
    /\ \E ok \in BOOLEAN :
         IF ok
         THEN /\ capture' = [capture EXCEPT !.pc = "setup", !.held = @ \cup {"webcam"}]
              /\ UNCHANGED log
         ELSE /\ capture' = [capture EXCEPT !.pc = "failed"]
              /\ log' = Emit(log, logLevel, "error", "failed to open capture device")
    /\ UNCHANGED <<Inputs, MainBoot, logLevel, printed, profiler, challenge, frames, keyPending>>

\* The window, the image matrix and the classifier, each with its deferred Close.
CaptureSetup ==
    /\ alive /\ capture.pc = "setup"
    /\ capture' = [capture EXCEPT !.pc = "load",
                                  !.held = @ \cup {"window", "img", "classifier"}]
    /\ printed' = printed \cup {"here 1", "here 2", "here 3", "here 4", "here 5"}
    /\ UNCHANGED <<Inputs, MainBoot, logLevel, log, profiler, challenge, frames, keyPending>>

\* classifier.Load(xmlFile): a failed load is written as an error entry and the
\* goroutine goes on to the loop.
CaptureLoad ==
    /\ alive /\ capture.pc = "load"
    /\ \E ok \in BOOLEAN :
         /\ capture' = [capture EXCEPT !.pc = "read", !.loaded = ok]
         /\ LET l1 == IF ok THEN log
                      ELSE Emit(log, logLevel, "error", "failed reading cascade file")
            IN  log' = Emit(l1, logLevel, "debug", "start reading camera device")
    /\ printed' = printed \cup {"here 6", "here 7"}
    /\ UNCHANGED <<Inputs, MainBoot, logLevel, profiler, challenge, frames, keyPending>>

\* The loop leaving on a failed read, its deferred Close calls run.
CaptureRead_BreakOnFail ==
    /\ alive /\ capture.pc = "read" /\ frames < MaxFrames
    /\ frames' = frames + 1
    /\ \E ok \in BOOLEAN :
         /\ log' = IF ok THEN log ELSE Emit(log, logLevel, "error", "cannot read device")
         /\ \E empty \in (IF ok THEN BOOLEAN ELSE {TRUE, capture.empty}) :
              capture' = IF ok
                         THEN [capture EXCEPT !.empty = empty, !.readOk = TRUE,
                                              !.pc = IF empty THEN "read" ELSE "detect"]
                         ELSE [capture EXCEPT !.empty = empty, !.readOk = FALSE,
                                              !.pc = "returned", !.held = {}]
    /\ UNCHANGED <<Inputs, MainBoot, logLevel, printed, profiler, challenge, keyPending>>

\* One webcam.Read(&img) and the img.Empty() test: a failed read is written as an
\* error entry, and an empty image goes round again without reaching WaitKey. The
\* first MaxFrames reads are arbitrary; the reads after them all succeed with an
\* empty image, frames alternating between MaxFrames and MaxFrames + 1.
CaptureRead ==
    /\ alive /\ capture.pc = "read"
    /\ IF frames < MaxFrames
       THEN /\ frames' = frames + 1
            /\ \E ok \in BOOLEAN :
                 /\ log' = IF ok THEN log
                           ELSE Emit(log, logLevel, "error", "cannot read device")
                 /\ \E empty \in (IF ok THEN BOOLEAN ELSE {TRUE, capture.empty}) :
                      capture' = [capture EXCEPT !.empty = empty, !.readOk = ok,
                                                 !.pc = IF empty THEN "read" ELSE "detect"]
       ELSE /\ frames' = (IF frames = MaxFrames THEN MaxFrames + 1 ELSE MaxFrames)
            /\ capture' = [capture EXCEPT !.empty = TRUE, !.readOk = TRUE]
            /\ UNCHANGED log
    /\ UNCHANGED <<Inputs, MainBoot, logLevel, printed, profiler, challenge, keyPending>>

\* Detection, annotation, window.IMShow(img) and window.WaitKey(1): a pending key
\* press is taken and breaks the loop, and the deferred Close calls run as the
\* goroutine returns.
CaptureDetect ==
    /\ alive /\ capture.pc = "detect"
    /\ log' = Emit(log, logLevel, "debug", "found faces")
    /\ IF keyPending
       THEN /\ capture' = [capture EXCEPT !.pc = "returned", !.held = {}]
            /\ keyPending' = FALSE
       ELSE /\ capture' = [capture EXCEPT !.pc = "read"]
            /\ UNCHANGED keyPending
    /\ UNCHANGED <<Inputs, MainBoot, logLevel, printed, profiler, challenge, frames>>

\* The user presses a key on the window gocv.NewWindow opened.
KeyPress ==
    /\ alive /\ "window" \in capture.held /\ ~keyPending
    /\ keyPending' = TRUE
    /\ UNCHANGED <<Inputs, MainBoot, logLevel, log, printed, profiler, challenge,
                   capture, frames>>

\* ------------------------------------------------------------ specifications

PreRun == InitConfig \/ InitLogging \/ PreRunCheck

Boot ==
    \/ RunPreamble \/ EnableLogRotation \/ WriteToDisk \/ MkArchive \/ MkBackup
    \/ SelectStrategy \/ NewServer \/ StartProfiler
    \/ AutoSetup \/ GoAutocert \/ ListenAuto
    \/ GoCapture \/ ListenManual \/ ListenPlain

Goroutines ==
    \/ ProfilerListen \/ ChallengeListen
    \/ CaptureOpen \/ CaptureSetup \/ CaptureLoad \/ CaptureRead \/ CaptureDetect
    \/ KeyPress

Next == PreRun \/ Boot \/ ServeError \/ Goroutines

\* The process from its start: cobra runs PreRun, then rootCmdRun.
Spec == Init /\ [][Next]_vars

\* rootCmdRun entered with any flag values: the selector over its whole input
\* domain, with configuration loaded and logging set up as PreRun leaves them.
InitRun ==
    /\ InitCommon
    /\ pc = "run"
    /\ cfgLoaded = TRUE
    /\ logLevel = (IF cfgFile.debug THEN "debug" ELSE "info")
    /\ log = <<[level |-> "info", msg |-> "writing log files to disk"]>>
    /\ fs = {"logdir", "logfile"}

NextRun == Boot \/ ServeError \/ Goroutines

SpecRun == InitRun /\ [][NextRun]_vars

\* Progress is followed at the configured log level and without the flags that
\* only add log entries or runtime settings.
LiveInit ==
    /\ Init
    /\ ~cfgFile.debug /\ ~flags.ignoreCertErrors /\ flags.pprofBlockRate = 0

\* The main goroutine is scheduled until it blocks in the listen call; nothing is
\* assumed of the goroutines or of the listener's error.
LiveSpec == LiveInit /\ [][Next]_vars /\ WF_vars(PreRun \/ Boot)

CaptureTask == CaptureOpen \/ CaptureSetup \/ CaptureLoad \/ CaptureRead \/ CaptureDetect

\* The capture goroutine is scheduled whenever it has a step to take; nothing is
\* assumed of the device, the user, the other goroutines or the listener.
CaptureLiveSpec == LiveInit /\ [][Next]_vars /\ WF_vars(CaptureTask)

\* ------------------------------------------------------------------ claims

\* The TLS strategy a listen call serves with: ListenAndServe is plain transport;
\* ListenAndServeTLS takes its certificate from TLSConfig.GetCertificate when that
\* is set (the autocert manager), and from the two files otherwise.
Strategy(c) ==
    IF c.fn = "ListenAndServe" THEN [kind |-> "None"]
    ELSE IF c.tlsConfig.getCertificate
         THEN [kind |-> "Automatic", hostnames |-> c.manager.hostPolicy,
               cacheDir |-> c.manager.cache]
         ELSE [kind |-> "Manual", certFile |-> c.certFile, keyFile |-> c.keyFile]

Served == calls # <<>>

AutoTLSWithoutHostname == flags.autoTLS /\ flags.tlsHostname = ""

FromConfig ==
    IF cfgFile.sslEnabled
    THEN [kind |-> "Manual", certFile |-> cfgFile.files.cert, keyFile |-> cfgFile.files.key]
    ELSE [kind |-> "None"]

C2_SupervisorsStartedBeforeServe ==
    listener \in ServingStates =>
        /\ capture.pc # "none"
        /\ flags.pprof => profiler # "none"

ListenerStep ==
    listener' # listener =>
        \/ listener = "Configuring" /\ listener' \in ServingStates \cup {"Terminated"}
        \/ listener \in ServingStates /\ listener' = "Terminated"

\* C3: the listener starts in Configuring; at most one listen call is ever made;
\* a serving state is left only for Terminated, and nothing leads back to
\* Configuring or from one serving state to another.
C3_OneServingState ==
    /\ listener = "Configuring"
    /\ [](Len(calls) <= 1)
    /\ [][ListenerStep]_vars

C3_Witness == listener = "Terminated" /\ Len(calls) = 1

\* C4: whenever the main goroutine comes out of a listen call, under any strategy,
\* the error has been written as a fatal entry and the process has exited with
\* status 1, the listener Terminated.
C4_ListenErrorIsFatal ==
    [][(pc = "serving" /\ pc' # "serving") =>
          /\ log' = Append(log, [level |-> "fatal", msg |-> FailureMessage(listener)])
          /\ listener' = "Terminated"
          /\ ~alive' /\ exitCode' = <<1>>]_vars

C4_Witness ==
    /\ ~alive /\ Len(calls) = 1
    /\ Strategy(calls[1]).kind = "Manual"
    /\ Logged("fatal", "failed to configure HTTPS server")

BestEffortFailure ==
    \/ capture.pc # "failed" /\ capture'.pc = "failed"
    \/ profiler # "failed" /\ profiler' = "failed"

\* C5: a capture goroutine that fails to open its device, or a profiler endpoint
\* that fails to bind, leaves the process running and the main goroutine where it
\* is; and with the main goroutine scheduled, a listener still Configuring when
\* such a failure has happened goes on to a serving state.
C5_BestEffortFailureIsContained ==
    /\ [][BestEffortFailure => (alive' /\ pc' = pc /\ listener' = listener)]_vars
    /\ ((alive /\ listener = "Configuring"
           /\ (capture.pc = "failed" \/ profiler = "failed"))
          ~> (listener \in ServingStates))

C5_Witness ==
    /\ capture.pc = "failed" /\ profiler = "failed"
    /\ alive /\ listener = "Configuring"

\* C6: when auto-TLS is requested with a non-empty hostname, one listen call is
\* made, with Automatic for exactly that hostname and the cache at
\* <root>/.tls-cache, whether the TLS-enabled flag is true or false.
C6_AutomaticForHostname ==
    (flags.autoTLS /\ flags.tlsHostname # "" /\ Served) =>
        /\ Len(calls) = 1
        /\ Strategy(calls[1]) =
             [kind |-> "Automatic", hostnames |-> {flags.tlsHostname},
              cacheDir |-> Clean(cfgFile.root) \o <<".tls-cache">>]

C6_Witness ==
    /\ flags.autoTLS /\ flags.tlsHostname = "b.example.com" /\ cfgFile.sslEnabled
    /\ listener = "ServingAutomaticTLS"

\* C7: when auto-TLS is not requested, one listen call is made, with
\* Manual{certFile, keyFile} from the configuration when the TLS-enabled flag is
\* true and with None when it is false.
C7_ManualOrNone ==
    (~flags.autoTLS /\ Served) =>
        /\ Len(calls) = 1
        /\ Strategy(calls[1]) = FromConfig

C7_Witness ==
    /\ ~flags.autoTLS /\ cfgFile.sslEnabled /\ cfgFile.files.cert # ""
    /\ listener = "ServingManualTLS"

\* C8: once a listen call has been made, both directory creations have been
\* attempted and the strategy decided; and no goroutine is started before the
\* strategy is decided.
C8_ProvisionAndDecideFirst ==
    /\ Served => ({"archive", "backup"} \subseteq attempted /\ decided)
    /\ (profiler # "none" \/ capture.pc # "none" \/ challenge # "none") => decided

C8_Witness ==
    /\ Served /\ profiler # "none" /\ capture.pc # "none"
    /\ "archive" \notin fs /\ "backup" \in fs

\* C9: with --auto-tls and no --tls-hostname, once the configuration has loaded
\* the process never gets past PreRun, no listen call is issued on any endpoint
\* and no goroutine is started, and when the process has exited its status is 1.
C9_UsageErrorExitsBeforeBind ==
    (AutoTLSWithoutHostname /\ cfgLoaded) =>
        /\ pc \in {"initLogging", "preRunCheck", "exited"}
        /\ binds = {} /\ calls = <<>>
        /\ profiler = "none" /\ challenge = "none" /\ capture.pc = "none"
        /\ ~alive => exitCode = <<1>>

C9_Witness ==
    /\ AutoTLSWithoutHostname /\ cfgLoaded /\ ~alive
    /\ "A TLS hostname must be provided" \in printed

\* C10: when the process has exited on the usage error, no configuration has been
\* loaded, no log directory or log file has been created, and no log entry has
\* been written.
C10_UsageErrorBeforeSideEffects ==
    (~alive /\ "A TLS hostname must be provided" \in printed) =>
        /\ ~cfgLoaded
        /\ fs = {}
        /\ log = <<>>

ConfigLoadMessages ==
    {"Error: Configuration File Not Found", "cmd/root: error while reading configuration file"}

LogSetupMessages ==
    {"cmd/root: failed to create install directory path",
     "cmd/root: failed to create sleepydrive log"}

ListenerFatalMessages == {FailureMessage(st) : st \in ServingStates}

UsageMessage == "A TLS hostname must be provided"

FatalLogged(msgs) == \E i \in 1..Len(log) : log[i].level = "fatal" /\ log[i].msg \in msgs

DirectoryFailure == attempted' # attempted /\ fs' = fs

GoroutineStep ==
    \/ capture.pc # "none" /\ capture' # capture
    \/ profiler # "none" /\ profiler' # profiler
    \/ challenge # "none" /\ challenge' # challenge

HasALPN(tc) == \E i \in 1..Len(tc.nextProtos) : tc.nextProtos[i] = ALPNProto

\* C12: a plain listen call is made with s.TLSConfig set to nil, so in
\* ServingPlain the server carries no certificate callback and no ACME ALPN
\* protocol; the callback and the protocol are on s.TLSConfig only in the
\* autotls branch, whose only listen call is the Automatic one.
C12_PlainIsCleared ==
    /\ \A i \in 1..Len(calls) :
         calls[i].fn = "ListenAndServe" => calls[i].tlsConfig.isNil
    /\ listener = "ServingPlain" =>
         /\ server.tlsConfig.isNil
         /\ ~server.tlsConfig.getCertificate
         /\ ~HasALPN(server.tlsConfig)
    /\ (server.made /\ (server.tlsConfig.getCertificate \/ HasALPN(server.tlsConfig))) =>
         /\ autotls
         /\ pc \in {"goAutocert", "listenAuto", "serving", "exited"}
         /\ \A i \in 1..Len(calls) : Strategy(calls[i]).kind = "Automatic"

C12_Witness ==
    /\ listener = "ServingPlain" /\ server.tlsConfig.isNil
    /\ cfgFile.files.cert # ""

\* C13: whatever the outcome of the first creation the second is attempted; once
\* both have been attempted each one that failed has its error entry; and from
\* the first creation on, with the main goroutine scheduled, boot goes through
\* the selector to a serving state.
C13_DirectoriesIndependent ==
    /\ []((decided \/ pc = "select") =>
            /\ attempted = {"archive", "backup"}
            /\ \A d \in {"archive", "backup"} :
                 d \notin fs => Logged("error", "failed to create " \o d \o " directory"))
    /\ [][pc = "mkArchive" => (pc' = "mkBackup" /\ alive')]_vars
    /\ [][pc = "mkBackup" => (pc' = "select" /\ alive')]_vars
    /\ ((pc = "mkArchive") ~> (listener \in ServingStates))

C13_Witness ==
    /\ attempted = {"archive", "backup"} /\ fs \cap {"archive", "backup"} = {}
    /\ listener \in ServingStates

C17_ResourcesReleased ==
    (capture.pc \in {"failed", "returned"} \/ ~alive) => capture.held = {}

\* C18: with a listen call made in the autotls branch the autocert http goroutine
\* has been started; its failure is written as an error entry and leaves the
\* process, the main goroutine and the listener as they are; and with the main
\* goroutine scheduled, a listener still Configuring when the goroutine has
\* failed goes on to ServingAutomaticTLS.
C18_ChallengeResponderContained ==
    /\ []((autotls /\ Served) => challenge # "none")
    /\ [][(challenge # "failed" /\ challenge' = "failed") =>
            /\ alive' /\ pc' = pc /\ listener' = listener
            /\ log' = Append(log, [level |-> "error",
                                   msg |-> "failed to serve autocert http server"])]_vars
    /\ ((alive /\ challenge = "failed" /\ listener = "Configuring")
          ~> (listener = "ServingAutomaticTLS"))

C18_Witness ==
    /\ alive /\ challenge = "failed" /\ listener = "Configuring"
    /\ Logged("error", "failed to serve autocert http server")

\* C19: in a process started through the root command, rootCmdRun never runs
\* with auto-TLS requested and the hostname empty, so the selector never drops
\* the request: once it has run, autotls equals the --auto-tls flag.
C19_DowngradeUnreachable ==
    /\ (pc \notin {"initConfig", "initLogging", "preRunCheck", "exited"} \/ decided)
         => ~AutoTLSWithoutHostname
    /\ decided => autotls = flags.autoTLS

C19_Witness == decided /\ flags.autoTLS /\ autotls /\ pc = "newServer"

LoopPcs == {"read", "detect"}

\* C20: once a key press is pending on the window, the capture goroutine's loop
\* is eventually left (or the process has ended), whatever the device yields.
C20_PendingKeyEndsLoop ==
    (keyPending /\ capture.pc \in LoopPcs) ~> (capture.pc = "returned" \/ ~alive)

ErrorWritten == \E i \in (Len(log) + 1)..Len(log') : log'[i].level = "error"

SubsystemFailure ==
    \/ profiler # "failed" /\ profiler' = "failed"
    \/ capture.pc = "open" /\ capture'.pc = "failed"
    \/ capture.pc = "load" /\ capture'.pc = "read" /\ ~capture'.loaded
    \/ capture.pc = "read" /\ frames' # frames /\ ~capture'.readOk

\* C15: the step in which the profiler endpoint fails, the capture device fails
\* to open, the classifier fails to load or a frame read fails writes a log entry.
C15_SubsystemFailuresLogged == [][SubsystemFailure => ErrorWritten]_vars

\* C16: the capture loop is left only from window.WaitKey with a key press
\* pending; no read, failed or not, no empty image and no detection step with the
\* classifier unloaded leaves it.
C16_LoopLeftOnlyOnKey ==
    [][(capture.pc \in LoopPcs /\ capture'.pc \notin LoopPcs) =>
          /\ capture.pc = "detect" /\ keyPending
          /\ capture'.pc = "returned"]_vars

C16_Witness ==
    /\ alive /\ capture.pc = "read" /\ frames >= 2
    /\ ~capture.loaded /\ ~capture.readOk /\ capture.empty

====
